---------------------------- MODULE Spec2Model ----------------------------
(***************************************************************************)
(* LaTeX Clip (latexclip.py): the plain-text transliterator                *)
(* latex_to_plaintext, the mathtext sanitizer sanitize_for_mathtext, and   *)
(* the App window's render / preview / copy handlers.                      *)
(*                                                                         *)
(* A Python str is modelled as a sequence of one-character strings, so     *)
(* that every rewrite of the two helpers is computed character by          *)
(* character, the way re.sub and str.replace compute it.                   *)
(***************************************************************************)
EXTENDS Integers, Sequences, FiniteSets, TLC

---------------------------------------------------------------------------
(* Characters and string primitives                                        *)

BS == "\\"
WS == {" ", "\n", "\t"}

\* s[i..] begins with p
StartsAt(s, i, p) ==
    /\ i >= 1
    /\ i + Len(p) - 1 <= Len(s)
    /\ \A k \in 1..Len(p) : s[i + k - 1] = p[k]

startswith(s, p) == StartsAt(s, 1, p)
endswith(s, p) == Len(p) <= Len(s) /\ StartsAt(s, Len(s) - Len(p) + 1, p)

\* least index j >= from with s[j] = c, or 0
RECURSIVE IndexOf(_, _, _)
IndexOf(s, from, c) ==
    IF from > Len(s) THEN 0
    ELSE IF s[from] = c THEN from
    ELSE IndexOf(s, from + 1, c)

\* least index j >= from with s[j] \in cs, or 0
RECURSIVE IndexOfAny(_, _, _)
IndexOfAny(s, from, cs) ==
    IF from > Len(s) THEN 0
    ELSE IF s[from] \in cs THEN from
    ELSE IndexOfAny(s, from + 1, cs)

\* least index j >= from where p begins, or 0
RECURSIVE Find(_, _, _)
Find(s, from, p) ==
    IF from + Len(p) - 1 > Len(s) THEN 0
    ELSE IF StartsAt(s, from, p) THEN from
    ELSE Find(s, from + 1, p)

Contains(s, p) == Find(s, 1, p) # 0

\* number of non-overlapping occurrences of p, scanning left to right
RECURSIVE CountFrom(_, _, _)
CountFrom(s, i, p) ==
    IF i + Len(p) - 1 > Len(s) THEN 0
    ELSE IF StartsAt(s, i, p) THEN 1 + CountFrom(s, i + Len(p), p)
    ELSE CountFrom(s, i + 1, p)

Count(s, p) == CountFrom(s, 1, p)

\* str.replace(p, r): every non-overlapping occurrence, left to right
RECURSIVE ReplaceFrom(_, _, _, _)
ReplaceFrom(s, i, p, r) ==
    IF i > Len(s) THEN <<>>
    ELSE IF StartsAt(s, i, p) THEN r \o ReplaceFrom(s, i + Len(p), p, r)
    ELSE <<s[i]>> \o ReplaceFrom(s, i + 1, p, r)

replace(s, p, r) == ReplaceFrom(s, 1, p, r)

\* first index >= i that is not whitespace (Len(s) + 1 when there is none)
RECURSIVE SkipWs(_, _)
SkipWs(s, i) ==
    IF i <= Len(s) /\ s[i] \in WS THEN SkipWs(s, i + 1) ELSE i

\* last index <= i that is not whitespace (0 when there is none)
RECURSIVE SkipWsBack(_, _)
SkipWsBack(s, i) ==
    IF i >= 1 /\ s[i] \in WS THEN SkipWsBack(s, i - 1) ELSE i

\* str.strip()
strip(s) == SubSeq(s, SkipWs(s, 1), SkipWsBack(s, Len(s)))

\* re.sub(r"\s+", " ", s)
RECURSIVE CollapseFrom(_, _)
CollapseFrom(s, i) ==
    IF i > Len(s) THEN <<>>
    ELSE IF s[i] \in WS THEN <<" ">> \o CollapseFrom(s, SkipWs(s, i))
    ELSE <<s[i]>> \o CollapseFrom(s, i + 1)

collapse_ws(s) == CollapseFrom(s, 1)

\* re.sub(r"\s+", " ", s).strip()
normalize_ws(s) == strip(collapse_ws(s))

---------------------------------------------------------------------------
(* latex_to_plaintext: the rewrite tables                                  *)

LACE_BRACE == <<"_", "_", "L", "A", "C", "E", "_", "B", "R", "A", "C", "E", "_", "_">>
RACE_BRACE == <<"_", "_", "R", "A", "C", "E", "_", "B", "R", "A", "C", "E", "_", "_">>

functions ==
    { <<"s", "i", "n">>, <<"c", "o", "s">>, <<"t", "a", "n">>,
      <<"l", "o", "g">>, <<"l", "n">>, <<"d", "e", "t">>,
      <<"d", "i", "m">>, <<"l", "i", "m">>, <<"e", "x", "p">>,
      <<"d", "e", "g">> }

greek ==
    { <<"a", "l", "p", "h", "a">>, <<"b", "e", "t", "a">>,
      <<"g", "a", "m", "m", "a">>, <<"d", "e", "l", "t", "a">>,
      <<"e", "p", "s", "i", "l", "o", "n">>, <<"z", "e", "t", "a">>,
      <<"e", "t", "a">>, <<"t", "h", "e", "t", "a">>, <<"i", "o", "t", "a">>,
      <<"k", "a", "p", "p", "a">>, <<"l", "a", "m", "b", "d", "a">>,
      <<"m", "u">>, <<"n", "u">>, <<"x", "i">>, <<"p", "i">>,
      <<"r", "h", "o">>, <<"s", "i", "g", "m", "a">>, <<"t", "a", "u">>,
      <<"u", "p", "s", "i", "l", "o", "n">>, <<"p", "h", "i">>,
      <<"c", "h", "i">>, <<"p", "s", "i">>, <<"o", "m", "e", "g", "a">>,
      <<"G", "a", "m", "m", "a">>, <<"D", "e", "l", "t", "a">>,
      <<"T", "h", "e", "t", "a">>, <<"L", "a", "m", "b", "d", "a">>,
      <<"X", "i">>, <<"P", "i">>, <<"S", "i", "g", "m", "a">>,
      <<"U", "p", "s", "i", "l", "o", "n">>, <<"P", "h", "i">>,
      <<"P", "s", "i">>, <<"O", "m", "e", "g", "a">> }

symbols == { <<"c", "d", "o", "t">>, <<"t", "i", "m", "e", "s">> }

\* the command names the pipeline rewrites by literal pattern
SQRT == <<"\\", "s", "q", "r", "t">>
TEXT == <<"\\", "t", "e", "x", "t">>
FRAC == <<"\\", "f", "r", "a", "c">>
LEFT == <<"\\", "l", "e", "f", "t">>
RIGHT == <<"\\", "r", "i", "g", "h", "t">>
PM == <<"\\", "p", "m">>
MP == <<"\\", "m", "p">>

---------------------------------------------------------------------------
(* latex_to_plaintext: the rewrites, in pipeline order                     *)

\* out.replace(r"\{", "__LACE_BRACE__").replace(r"\}", "__RACE_BRACE__")
protect_braces(s) ==
    replace(replace(s, <<BS, "{">>, LACE_BRACE), <<BS, "}">>, RACE_BRACE)

\* re.sub(r"\$\$(.*?)\$\$", r"\1", out, flags=re.DOTALL)
RECURSIVE StripDisplayFrom(_, _)
StripDisplayFrom(s, i) ==
    IF i > Len(s) THEN <<>>
    ELSE LET j == IF StartsAt(s, i, <<"$", "$">>)
                  THEN Find(s, i + 2, <<"$", "$">>) ELSE 0
         IN IF j # 0
            THEN SubSeq(s, i + 2, j - 1) \o StripDisplayFrom(s, j + 2)
            ELSE <<s[i]>> \o StripDisplayFrom(s, i + 1)

strip_display(s) == StripDisplayFrom(s, 1)

\* re.sub(r"\$(.*?)\$", r"\1", out, flags=re.DOTALL)
RECURSIVE StripInlineFrom(_, _)
StripInlineFrom(s, i) ==
    IF i > Len(s) THEN <<>>
    ELSE LET j == IF s[i] = "$" THEN IndexOf(s, i + 1, "$") ELSE 0
         IN IF j # 0
            THEN SubSeq(s, i + 1, j - 1) \o StripInlineFrom(s, j + 1)
            ELSE <<s[i]>> \o StripInlineFrom(s, i + 1)

strip_inline(s) == StripInlineFrom(s, 1)

strip_delimiters(s) == strip_inline(strip_display(s))

\* re.sub(r"\\(n1|n2|...)", rep, out), and with eat the pattern ends in \s*.
\* rep maps each name of the alternation to its replacement. No name of a
\* table is a prefix of another, so at most one alternative matches.
RECURSIVE SubCommand(_, _, _, _)
SubCommand(s, i, rep, eat) ==
    IF i > Len(s) THEN <<>>
    ELSE IF s[i] # BS THEN <<s[i]>> \o SubCommand(s, i + 1, rep, eat)
    ELSE LET hits == {n \in DOMAIN rep : StartsAt(s, i + 1, n)}
         IN IF hits = {} THEN <<s[i]>> \o SubCommand(s, i + 1, rep, eat)
            ELSE LET n == CHOOSE h \in hits : TRUE
                     j == i + 1 + Len(n)
                 IN rep[n] \o SubCommand(s, IF eat THEN SkipWs(s, j) ELSE j, rep, eat)

\* re.sub(r"\\(sin|cos|tan|log|ln|det|dim|lim|exp|deg)\s*", r"\1", out)
strip_functions(s) == SubCommand(s, 1, [n \in functions |-> n], TRUE)

\* re.sub(r"\\(" + greek + r")", r"\1", out)
strip_greek(s) == SubCommand(s, 1, [n \in greek |-> n], FALSE)

\* re.sub(r"\\(cdot|times)", "*", out), then \pm -> +-, then \mp -> -+
replace_symbols(s) ==
    replace(replace(SubCommand(s, 1, [n \in symbols |-> <<"*">>], FALSE),
                    PM, <<"+", "-">>),
            MP, <<"-", "+">>)

\* re.sub(r"\\sqrt\[([^\]]*)\]\{([^}]*)\}", r"(\2)^(1/\1)", out)
RECURSIVE SqrtNFrom(_, _)
SqrtNFrom(s, i) ==
    IF i > Len(s) THEN <<>>
    ELSE LET rb == IF StartsAt(s, i, SQRT \o <<"[">>)
                   THEN IndexOf(s, i + 6, "]") ELSE 0
             cb == IF rb # 0 /\ StartsAt(s, rb + 1, <<"{">>)
                   THEN IndexOf(s, rb + 2, "}") ELSE 0
         IN IF cb # 0
            THEN <<"(">> \o SubSeq(s, rb + 2, cb - 1) \o <<")", "^", "(", "1", "/">>
                 \o SubSeq(s, i + 6, rb - 1) \o <<")">> \o SqrtNFrom(s, cb + 1)
            ELSE <<s[i]>> \o SqrtNFrom(s, i + 1)

\* re.sub(r"\\sqrt\{([^}]*)\}", r"sqrt(\1)", out)
RECURSIVE SqrtFrom(_, _)
SqrtFrom(s, i) ==
    IF i > Len(s) THEN <<>>
    ELSE LET cb == IF StartsAt(s, i, SQRT \o <<"{">>)
                   THEN IndexOf(s, i + 6, "}") ELSE 0
         IN IF cb # 0
            THEN <<"s", "q", "r", "t", "(">> \o SubSeq(s, i + 6, cb - 1) \o <<")">>
                 \o SqrtFrom(s, cb + 1)
            ELSE <<s[i]>> \o SqrtFrom(s, i + 1)

expand_sqrt(s) == SqrtFrom(SqrtNFrom(s, 1), 1)

\* re.sub(r"\\text\{([^}]*)\}", r"\1", out)
RECURSIVE TextFrom(_, _)
TextFrom(s, i) ==
    IF i > Len(s) THEN <<>>
    ELSE LET cb == IF StartsAt(s, i, TEXT \o <<"{">>)
                   THEN IndexOf(s, i + 6, "}") ELSE 0
         IN IF cb # 0
            THEN SubSeq(s, i + 6, cb - 1) \o TextFrom(s, cb + 1)
            ELSE <<s[i]>> \o TextFrom(s, i + 1)

expand_text(s) == TextFrom(s, 1)

\* One argument ([^{}]+|\{[^}]*\}) of the \frac pattern starting at a, with
\* the "}" that must follow it: the index of that "}", or 0 when the
\* argument does not match. The two alternatives exclude each other on the
\* first character, and neither can match a shorter text and still be
\* followed by "}".
FracArgClose(s, a) ==
    IF a > Len(s) THEN 0
    ELSE IF s[a] = "{"
         THEN LET c == IndexOf(s, a + 1, "}")
              IN IF c # 0 /\ StartsAt(s, c + 1, <<"}">>) THEN c + 1 ELSE 0
    ELSE IF s[a] = "}" THEN 0
    ELSE LET e == IndexOfAny(s, a + 1, {"{", "}"})
         IN IF e # 0 /\ s[e] = "}" THEN e ELSE 0

\* a faulty repl_frac, the two groups exchanged: C5 does not hold of it
repl_frac_swapped(num, den) == <<"(">> \o den \o <<")", "/", "(">> \o num \o <<")">>

repl_frac(num, den) == <<"(">> \o num \o <<")", "/", "(">> \o den \o <<")">>

\* re.sub(r"\\frac\{([^{}]+|\{[^}]*\})\}\{([^{}]+|\{[^}]*\})\}", repl_frac, out)
RECURSIVE FracFrom(_, _)
FracFrom(s, i) ==
    IF i > Len(s) THEN <<>>
    ELSE LET c1 == IF StartsAt(s, i, FRAC \o <<"{">>)
                   THEN FracArgClose(s, i + 6) ELSE 0
             c2 == IF c1 # 0 /\ StartsAt(s, c1 + 1, <<"{">>)
                   THEN FracArgClose(s, c1 + 2) ELSE 0
         IN IF c2 # 0
            THEN repl_frac(SubSeq(s, i + 6, c1 - 1), SubSeq(s, c1 + 2, c2 - 1))
                 \o FracFrom(s, c2 + 1)
            ELSE <<s[i]>> \o FracFrom(s, i + 1)

expand_frac(s) == FracFrom(s, 1)

\* re.sub(r"\^\{([^}]*)\}", r"^\1", out) and re.sub(r"_\{([^}]*)\}", r"_\1", out)
RECURSIVE ScriptFrom(_, _, _)
ScriptFrom(s, i, c) ==
    IF i > Len(s) THEN <<>>
    ELSE LET cb == IF StartsAt(s, i, <<c, "{">>)
                   THEN IndexOf(s, i + 2, "}") ELSE 0
         IN IF cb # 0
            THEN <<c>> \o SubSeq(s, i + 2, cb - 1) \o ScriptFrom(s, cb + 1, c)
            ELSE <<s[i]>> \o ScriptFrom(s, i + 1, c)

flatten_scripts(s) == ScriptFrom(ScriptFrom(s, 1, "^"), 1, "_")

\* out.replace(r"\left", "").replace(r"\right", "")
drop_sizing(s) == replace(replace(s, LEFT, <<>>), RIGHT, <<>>)

\* out.replace("{", "(").replace("}", ")")
flatten_braces(s) == replace(replace(s, <<"{">>, <<"(">>), <<"}">>, <<")">>)

\* out.replace("__LACE_BRACE__", "{").replace("__RACE_BRACE__", "}")
restore_braces(s) == replace(replace(s, LACE_BRACE, <<"{">>), RACE_BRACE, <<"}">>)

\* a faulty latex_to_plaintext, the fractions expanded before the radicals:
\* C6 does not hold of it
latex_to_plaintext_fractions_first(s) ==
    normalize_ws(
     restore_braces(
      flatten_braces(
       drop_sizing(
        flatten_scripts(
         expand_text(
          expand_sqrt(
           expand_frac(
            replace_symbols(
             strip_greek(
              strip_functions(
               strip_delimiters(
                protect_braces(s)))))))))))))

latex_to_plaintext(s) ==
    normalize_ws(
     restore_braces(
      flatten_braces(
       drop_sizing(
        flatten_scripts(
         expand_frac(
          expand_text(
           expand_sqrt(
            replace_symbols(
             strip_greek(
              strip_functions(
               strip_delimiters(
                protect_braces(s)))))))))))))

---------------------------------------------------------------------------
(* sanitize_for_mathtext                                                   *)

MATHRM == <<"\\", "m", "a", "t", "h", "r", "m">>

\* text[2:-2]
slice_2_m2(s) == SubSeq(s, 3, Len(s) - 2)

to_rm(inner) == MATHRM \o <<"{">> \o inner \o <<"}">>

\* re.sub(r"\\text\{([^}]*)\}", to_rm, text)
RECURSIVE ToRmFrom(_, _)
ToRmFrom(s, i) ==
    IF i > Len(s) THEN <<>>
    ELSE LET cb == IF StartsAt(s, i, TEXT \o <<"{">>)
                   THEN IndexOf(s, i + 6, "}") ELSE 0
         IN IF cb # 0
            THEN to_rm(SubSeq(s, i + 6, cb - 1)) \o ToRmFrom(s, cb + 1)
            ELSE <<s[i]>> \o ToRmFrom(s, i + 1)

\* the text after the $$...$$ and \[...\] wrappers are taken off
unwrap(s) ==
    LET t0 == strip(s)
        t1 == IF startswith(t0, <<"$", "$">>) /\ endswith(t0, <<"$", "$">>)
              THEN strip(slice_2_m2(t0)) ELSE t0
    IN IF startswith(t1, <<BS, "[">>) /\ endswith(t1, <<BS, "]">>)
       THEN strip(slice_2_m2(t1)) ELSE t1

already_math(text) == startswith(text, <<"$">>) /\ endswith(text, <<"$">>)

sanitize_for_mathtext(s) ==
    LET text == unwrap(s)
        body == normalize_ws(drop_sizing(ToRmFrom(text, 1)))
    IN IF ~already_math(text) /\ ~Contains(body, <<"\n">>)
       THEN <<"$">> \o body \o <<"$">>
       ELSE body

---------------------------------------------------------------------------
(* State                                                                   *)

VARIABLES
    src,                \* the str a direct call of a helper is given
    out,                \* the str the call returned
    returned,           \* the helper that returned out ("" before the call)
    HAVE_PYWIN32,       \* module global: win32clipboard could be imported
    txt,                \* App.txt: the content of the input Text widget
    fontsize_var,       \* App.fontsize_var (the spinbox)
    usetex_var,         \* App.usetex_var (the "Use full LaTeX" checkbox)
    last_image,         \* App.last_image
    last_photo,         \* App.last_photo, shown by App.preview
    last_rendered_text, \* App.last_rendered_text
    status,             \* App.status
    clipboard,          \* the system clipboard
    saved_file          \* latex_output.png, written when pywin32 is missing

helper_vars == <<src, out, returned>>
app_vars == <<HAVE_PYWIN32, txt, fontsize_var, usetex_var, last_image, last_photo,
              last_rendered_text, status, clipboard, saved_file>>
vars == <<src, out, returned, HAVE_PYWIN32, txt, fontsize_var, usetex_var,
          last_image, last_photo, last_rendered_text, status, clipboard, saved_file>>

\* Python's None, and a str held where None may be held
NoneValue == [kind |-> "None"]
Str(s) == [kind |-> "str", s |-> s]

---------------------------------------------------------------------------
(* Inputs of the direct calls                                              *)

RECURSIVE Cat(_)
Cat(ts) == IF ts = <<>> THEN <<>> ELSE Head(ts) \o Cat(Tail(ts))

\* every concatenation of at most n tokens of T
TokenStrings(T, n) == {Cat(ts) : ts \in UNION {[1..k -> T] : k \in 0..n}}

MaxBraceTokens == 3
MaxWordTokens == 3
MaxDollarTokens == 5
MaxContextTokens == 2
MaxArgLen == 2
MaxMathTokens == 4
MaxSpecialTokens == 3

\* escaped braces among grouping braces, scripts, delimiters and text that
\* spells part of a placeholder
BraceTokens ==
    { <<BS, "{">>, <<BS, "}">>, <<"{">>, <<"}">>, <<"_">>, <<"^">>, <<"x">>, <<"$">>,
      <<"_", "_", "L", "A", "C", "E", "_", "B", "R", "A", "C", "E">> }
BraceInputs == TokenStrings(BraceTokens, MaxBraceTokens)

\* text without LaTeX syntax: letters, whitespace, brackets, underscores
WordTokens ==
    { <<"a">>, <<" ">>, <<"\n">>, <<"(">>, <<"_">>, LACE_BRACE }
WordInputs == TokenStrings(WordTokens, MaxWordTokens)

\* math delimiters around and between text
DollarTokens == { <<"$">>, <<"x">>, <<" ">> }
DollarInputs == TokenStrings(DollarTokens, MaxDollarTokens)

\* commands: the names of the tables, and names that are in no table
TableCommands ==
    { <<"s", "i", "n">>, <<"l", "i", "m">>, <<"p", "i">>, <<"e", "t", "a">>,
      <<"O", "m", "e", "g", "a">>, <<"c", "d", "o", "t">>, <<"p", "m">>, <<"m", "p">>,
      <<"l", "e", "f", "t">>, <<"r", "i", "g", "h", "t">> }
UnknownCommands ==
    { <<"s", "i", "n", "h">>, <<"p", "m", "o", "d">>,
      <<"l", "e", "f", "t", "a", "r", "r", "o", "w">>,
      <<"r", "i", "g", "h", "t", "a", "r", "r", "o", "w">>,
      <<"l", "i", "m", "i", "t", "s">>,
      <<"p", "i", "t", "c", "h", "f", "o", "r", "k">>,
      <<"i", "n", "f", "t", "y">>, <<"q", "u", "a", "d">>, <<"s", "u", "m">>,
      <<"v", "e", "c">> }
CommandBefore == { <<>>, <<"x">>, <<"2", " ">> }
CommandAfter == { <<>>, <<" ", "y">>, <<"{", "x", "}">>, <<"_", "{", "i", "}">> }
Command(before, name, after) == before \o <<BS>> \o name \o after
CommandInputs ==
    { Command(b, n, a) : b \in CommandBefore, n \in TableCommands \cup UnknownCommands,
                         a \in CommandAfter }

\* plain arguments: letters, digits and brackets
ArgChars == { <<"a">>, <<"2">>, <<"[">> }
PlainArgs == TokenStrings(ArgChars, MaxArgLen)

\* radicals
SqrtOf(x) == SQRT \o <<"{">> \o x \o <<"}">>
SqrtNOf(n, x) == SQRT \o <<"[">> \o n \o <<"]", "{">> \o x \o <<"}">>
FracOf(a, b) == FRAC \o <<"{">> \o a \o <<"}", "{">> \o b \o <<"}">>
SqrtInputs ==
    { SqrtOf(x) : x \in PlainArgs }
    \cup { SqrtNOf(n, x) : n \in PlainArgs, x \in PlainArgs }
    \cup { SqrtOf(FracOf(a, b)) : a \in PlainArgs, b \in PlainArgs }

\* fractions in context
FracArgs == { <<"a">>, <<"1", "+", "b">> }
ContextTokens ==
    { <<"{">>, <<"}">>, <<"x">>, <<"$">>, <<BS, "}">>,
      FRAC \o <<"{">>, FRAC \o <<"{", "y", "}", "{">>,
      SQRT \o <<"{">>, SQRT \o <<"[">>, <<"]", "{">>, TEXT \o <<"{">> }
ContextBefore == TokenStrings(ContextTokens, MaxContextTokens)
ContextAfter == { <<>>, <<"}">>, <<"}", "{", "y", "}">>, <<"x">>, <<"{">> }
FracInputs ==
    { pre \o FracOf(a, a) \o post : pre \in ContextBefore, a \in FracArgs,
                                    post \in ContextAfter }
    \cup { FracOf(a, b) : a \in FracArgs, b \in FracArgs }

\* the inputs and expected results of tests/test_plaintext.py
test_nested_fractions ==
    [input |-> FRAC \o <<"{", "1", "+">> \o FracOf(<<"1">>, <<"x">>) \o <<"}", "{", "y", "}">>,
     expected |-> FRAC \o <<"(", "1", "+", "(", "1", ")", "/", "(", "x", ")", ")", "(", "y", ")">>]
test_nested_sqrt ==
    [input |-> SqrtOf(FracOf(<<"a">>, <<"b">>)),
     expected |-> <<"s", "q", "r", "t", "(">> \o FRAC \o <<"(", "a", ")", "(", "b", ")", ")">>]
test_text_blocks ==
    [input |-> TEXT \o <<"{", "A", "r", "e", "a", "}", " ", "=", " ">>
               \o FracOf(<<"1">>, <<"2">>) \o <<" ", "b", " ", "h">>,
     expected |-> <<"A", "r", "e", "a", " ", "=", " ", "(", "1", ")", "/", "(", "2", ")",
                    " ", "b", " ", "h">>]
test_escapes_specials ==
    [input |-> <<"S", "a", "v", "e", " ", "5", "0", "%", " ", "&", " ", "m", "o", "r", "e",
                 " ", "#", "1">>,
     expected |-> <<"$", "S", "a", "v", "e", " ", "5", "0", "\\", "%", " ", "\\", "&", " ",
                    "m", "o", "r", "e", " ", "\\", "#", "1", "$">>]
test_retains_escapes ==
    [input |-> <<"A", "l", "r", "e", "a", "d", "y", " ", "e", "s", "c", "a", "p", "e", "d",
                 " ", "\\", "%", " ", "v", "a", "l", "u", "e">>,
     expected |-> <<"$", "A", "l", "r", "e", "a", "d", "y", " ", "e", "s", "c", "a", "p", "e",
                    "d", " ", "\\", "%", " ", "v", "a", "l", "u", "e", "$">>]
PlainTests == { test_nested_fractions, test_nested_sqrt, test_text_blocks }
MathTests == { test_escapes_specials, test_retains_escapes }

PlainInputs ==
    BraceInputs \cup WordInputs \cup DollarInputs \cup CommandInputs
    \cup SqrtInputs \cup FracInputs \cup { t.input : t \in PlainTests }

\* inputs of sanitize_for_mathtext
MathTokens == { <<"$">>, <<"x">>, <<" ">>, <<"\n">>, <<BS, "[">>, <<BS, "]">> }
SpecialTokens == { <<"%">>, <<"&">>, <<"#">>, <<BS>>, <<"a">>, <<" ">> }
MathInputs ==
    TokenStrings(MathTokens, MaxMathTokens)
    \cup TokenStrings(SpecialTokens, MaxSpecialTokens)
    \cup { t.input : t \in MathTests }

---------------------------------------------------------------------------
(* App                                                                     *)

MaxFontSteps == 1
DefaultFontSize == 28
FontSizes == DefaultFontSize..(DefaultFontSize + MaxFontSteps)

\* what the user may have typed into the input widget
AppTexts == { <<>>, <<"x">>, <<" ", "x", "\n">>, <<"$", "y", "$">> }

StatusReady == "Ready"
StatusPreview == "Preview updated"
StatusRenderFailed == "Render failed"
StatusImageCopied == "Image (with transparency) copied to clipboard"
StatusImageSaved == "Saved image to latex_output.png"
StatusTextCopied == "Plain text copied to clipboard"
StatusCopyFailed == "Copy failed"

\* App.get_input
get_input == strip(txt)

\* the string render_latex_to_png_bytes hands to matplotlib
render_content(latex, usetex) ==
    LET content == strip(latex)
    IN IF ~usetex THEN sanitize_for_mathtext(content)
       ELSE LET c1 == IF startswith(content, <<"$", "$">>) /\ endswith(content, <<"$", "$">>)
                      THEN strip(slice_2_m2(content)) ELSE content
            IN IF ~(startswith(c1, <<BS, "[">>) /\ endswith(c1, <<BS, "]">>))
                  /\ ~(startswith(c1, <<"$">>) /\ endswith(c1, <<"$">>))
               THEN <<BS, "[">> \o c1 \o <<BS, "]">>
               ELSE c1

\* the image render_latex_to_png_bytes returns: the pixels are a function
\* of what is drawn, the font size and the engine
render_latex_to_png_bytes(latex, fontsize, usetex) ==
    [kind |-> "png", content |-> render_content(latex, usetex),
     fontsize |-> fontsize, usetex |-> usetex]

\* App.render raises: no input, or matplotlib rejects the text
render_raises(renderer_ok) == get_input = <<>> \/ ~renderer_ok

rendered_image == render_latex_to_png_bytes(get_input, fontsize_var, usetex_var)

Init ==
    /\ src = <<>>
    /\ out = <<>>
    /\ returned = ""
    /\ HAVE_PYWIN32 \in BOOLEAN
    /\ txt = <<>>
    /\ fontsize_var = DefaultFontSize
    /\ usetex_var = FALSE
    /\ last_image = NoneValue
    /\ last_photo = NoneValue
    /\ last_rendered_text = NoneValue
    /\ status = StatusReady
    /\ clipboard = NoneValue
    /\ saved_file = NoneValue

\* the user edits the input widget
edit_input ==
    /\ \E t \in AppTexts : txt' = t
    /\ UNCHANGED <<helper_vars, HAVE_PYWIN32, fontsize_var, usetex_var, last_image,
                   last_photo, last_rendered_text, status, clipboard, saved_file>>

\* the user changes the font size spinbox
set_fontsize ==
    /\ \E f \in FontSizes : fontsize_var' = f
    /\ UNCHANGED <<helper_vars, HAVE_PYWIN32, txt, usetex_var, last_image,
                   last_photo, last_rendered_text, status, clipboard, saved_file>>

\* the user toggles the full-LaTeX checkbox
toggle_usetex ==
    /\ usetex_var' = ~usetex_var
    /\ UNCHANGED <<helper_vars, HAVE_PYWIN32, txt, fontsize_var, last_image,
                   last_photo, last_rendered_text, status, clipboard, saved_file>>

\* App.on_preview
on_preview ==
    \E renderer_ok \in BOOLEAN :
        /\ IF render_raises(renderer_ok)
           THEN /\ status' = StatusRenderFailed
                /\ UNCHANGED <<last_image, last_photo, last_rendered_text>>
           ELSE /\ last_image' = rendered_image
                /\ last_rendered_text' = Str(get_input)
                /\ last_photo' = rendered_image
                /\ status' = StatusPreview
        /\ UNCHANGED <<helper_vars, HAVE_PYWIN32, txt, fontsize_var, usetex_var,
                       clipboard, saved_file>>

\* a faulty condition that forgets the text: C9 does not hold of it
needs_render_ignoring_text == last_image = NoneValue

\* the condition under which on_copy_image calls render
needs_render == last_image = NoneValue \/ Str(get_input) # last_rendered_text

\* App.on_copy_image. clip is what the Windows clipboard does: it takes the
\* image, cannot be opened, or fails after it was emptied.
on_copy_image ==
    \E renderer_ok \in BOOLEAN, clip \in {"ok", "open fails", "set fails"} :
        /\ IF needs_render /\ render_raises(renderer_ok)
           THEN /\ status' = StatusCopyFailed
                /\ UNCHANGED <<last_image, last_photo, last_rendered_text,
                               clipboard, saved_file>>
           ELSE LET img == IF needs_render THEN rendered_image ELSE last_image
                IN /\ last_image' = img
                   /\ last_rendered_text' =
                        IF needs_render THEN Str(get_input) ELSE last_rendered_text
                   /\ last_photo' = IF needs_render THEN rendered_image ELSE last_photo
                   /\ IF HAVE_PYWIN32
                      THEN /\ clipboard' = CASE clip = "ok" -> img
                                             [] clip = "open fails" -> clipboard
                                             [] OTHER -> NoneValue
                           /\ status' = IF clip = "ok" THEN StatusImageCopied
                                        ELSE StatusCopyFailed
                           /\ UNCHANGED saved_file
                      ELSE /\ saved_file' = img
                           /\ status' = StatusImageSaved
                           /\ UNCHANGED clipboard
        /\ UNCHANGED <<helper_vars, HAVE_PYWIN32, txt, fontsize_var, usetex_var>>

\* App.on_copy_text
on_copy_text ==
    /\ IF get_input = <<>>
       THEN /\ status' = StatusCopyFailed
            /\ UNCHANGED clipboard
       ELSE /\ clipboard' = Str(latex_to_plaintext(get_input))
            /\ status' = StatusTextCopied
    /\ UNCHANGED <<helper_vars, HAVE_PYWIN32, txt, fontsize_var, usetex_var,
                   last_image, last_photo, last_rendered_text, saved_file>>

Next ==
    \/ edit_input
    \/ set_fontsize
    \/ toggle_usetex
    \/ on_preview
    \/ on_copy_image
    \/ on_copy_text

Spec == Init /\ [][Next]_vars

---------------------------------------------------------------------------
(* Direct calls of the helpers, as the test suite makes them               *)

InitPlain ==
    /\ src \in PlainInputs
    /\ out = <<>>
    /\ returned = ""
    /\ HAVE_PYWIN32 = TRUE
    /\ txt = <<>>
    /\ fontsize_var = DefaultFontSize
    /\ usetex_var = FALSE
    /\ last_image = NoneValue
    /\ last_photo = NoneValue
    /\ last_rendered_text = NoneValue
    /\ status = StatusReady
    /\ clipboard = NoneValue
    /\ saved_file = NoneValue

call_latex_to_plaintext ==
    /\ returned = ""
    /\ out' = latex_to_plaintext(src)
    /\ returned' = "latex_to_plaintext"
    /\ UNCHANGED <<src, app_vars>>

SpecPlain == InitPlain /\ [][call_latex_to_plaintext]_vars

InitMath ==
    /\ src \in MathInputs
    /\ out = <<>>
    /\ returned = ""
    /\ HAVE_PYWIN32 = TRUE
    /\ txt = <<>>
    /\ fontsize_var = DefaultFontSize
    /\ usetex_var = FALSE
    /\ last_image = NoneValue
    /\ last_photo = NoneValue
    /\ last_rendered_text = NoneValue
    /\ status = StatusReady
    /\ clipboard = NoneValue
    /\ saved_file = NoneValue

call_sanitize_for_mathtext ==
    /\ returned = ""
    /\ out' = sanitize_for_mathtext(src)
    /\ returned' = "sanitize_for_mathtext"
    /\ UNCHANGED <<src, app_vars>>

SpecMath == InitMath /\ [][call_sanitize_for_mathtext]_vars

---------------------------------------------------------------------------
(* Properties of latex_to_plaintext (checked under SpecPlain)              *)

plain_returned == returned = "latex_to_plaintext"

\* the tests of tests/test_plaintext.py that exercise latex_to_plaintext pass
PlainTestsPass ==
    plain_returned => \A t \in PlainTests : src = t.input => out = t.expected

\* C1: every escaped brace of the input (backslash-open-brace,
\* backslash-close-brace) appears in the output of latex_to_plaintext as the
\* same literal brace, never as a parenthesis or as placeholder text: the
\* output holds at least as many "{" as the input holds escaped "{", and at
\* least as many "}" as the input holds escaped "}".
C1_EscapedBracesSurvive ==
    plain_returned =>
        /\ Count(out, <<"{">>) >= Count(src, <<BS, "{">>)
        /\ Count(out, <<"}">>) >= Count(src, <<BS, "}">>)

\* text that spells no part of a placeholder
NoPlaceholderText(s) ==
    ~Contains(s, <<"A", "C", "E", "_", "B", "R", "A", "C", "E">>)

\* On inputs that spell no placeholder text the escaped braces do survive:
\* the output holds exactly as many "{" and "}" as the input holds escaped.
EscapedBracesSurviveWithoutPlaceholderText ==
    plain_returned /\ NoPlaceholderText(src) =>
        /\ Count(out, <<"{">>) = Count(src, <<BS, "{">>)
        /\ Count(out, <<"}">>) = Count(src, <<BS, "}">>)

\* text that holds no backslash, no brace and no "$" (and so no "^{" or "_{")
NoLatexSyntax(s) == \A i \in 1..Len(s) : s[i] \notin {BS, "{", "}", "$"}

\* C4: for every input without LaTeX syntax, latex_to_plaintext returns the
\* input with each run of whitespace collapsed to one space and the ends
\* trimmed (the empty string stays empty).
C4_PlainTextOnlyNormalized ==
    plain_returned /\ NoLatexSyntax(src) => out = normalize_ws(src)

\* On inputs that spell no placeholder text, text without LaTeX syntax is
\* only normalized.
PlainTextOnlyNormalizedWithoutPlaceholderText ==
    plain_returned /\ NoLatexSyntax(src) /\ NoPlaceholderText(src) =>
        out = normalize_ws(src)

\* The text as the radical, \text and fraction rewrites receive it, as far
\* as braces and delimiters go: escaped braces protected, delimiters stripped.
Stripped(s) == strip_delimiters(protect_braces(s))

\* The index just after the opening brace of a \sqrt{, \sqrt[n]{ or \text{
\* that begins at o, or 0.
ArgumentStart(r, o) ==
    IF StartsAt(r, o, SQRT \o <<"{">>) \/ StartsAt(r, o, TEXT \o <<"{">>) THEN o + 6
    ELSE IF StartsAt(r, o, SQRT \o <<"[">>)
         THEN LET rb == IndexOf(r, o + 6, "]")
              IN IF rb # 0 /\ StartsAt(r, rb + 1, <<"{">>) THEN rb + 2 ELSE 0
    ELSE 0

\* the brace group entered at depth d before index i is closed before index p
RECURSIVE ClosedBefore(_, _, _, _)
ClosedBefore(r, i, d, p) ==
    IF d = 0 THEN TRUE
    ELSE IF i >= p THEN FALSE
    ELSE ClosedBefore(r, i + 1,
                      IF r[i] = "{" THEN d + 1 ELSE IF r[i] = "}" THEN d - 1 ELSE d, p)

\* index p lies inside the braces of a \sqrt or \text argument
InsideArgument(r, p) ==
    \E o \in 1..(p - 1) :
        LET a == ArgumentStart(r, o)
        IN a # 0 /\ a <= p /\ ~ClosedBefore(r, a, 1, p)

C6_RadicalsBeforeFractions ==
    plain_returned /\ StartsAt(src, 1, SQRT) =>
        \A x \in PlainArgs :
            /\ src = SqrtOf(x)
                 => out = <<"s", "q", "r", "t", "(">> \o x \o <<")">>
            /\ StartsAt(src, 1, SQRT \o <<"[">> \o x \o <<"]", "{">>) =>
                 \A y \in PlainArgs :
                     src = SqrtNOf(x, y)
                         => out = <<"(">> \o y \o <<")", "^", "(", "1", "/">> \o x \o <<")">>
            /\ StartsAt(src, 1, SQRT \o <<"{">> \o FRAC \o <<"{">> \o x \o <<"}", "{">>) =>
                 \A b \in PlainArgs :
                     src = SqrtOf(FracOf(x, b))
                         => out = <<"s", "q", "r", "t", "(">> \o FRAC \o <<"(">> \o x
                                  \o <<")", "(">> \o b \o <<")", ")">>

\* a fraction enclosed in a radical was left unexpanded
C6_Witness ==
    /\ plain_returned
    /\ src = SqrtOf(FracOf(<<"a">>, <<"2">>))
    /\ out = <<"s", "q", "r", "t", "(">> \o FRAC \o <<"(", "a", ")", "(", "2", ")", ")">>

\* C7: a command whose full name is in none of the rewrite tables passes
\* through to the output unchanged, backslash included.
C7_UnknownCommandsPassThrough ==
    plain_returned =>
        \A b \in CommandBefore, n \in UnknownCommands, a \in CommandAfter :
            src = Command(b, n, a) => Contains(out, <<BS>> \o n)

\* C8: a math delimiter without a closing delimiter of its kind stays in the
\* output: a lone "$" stays, and a "$$" with no other "$" in the input stays.
C8_UnmatchedDelimitersStay ==
    plain_returned =>
        /\ Count(src, <<"$">>) = 1 => Count(out, <<"$">>) = 1
        /\ Count(src, <<"$">>) = 2 /\ Contains(src, <<"$", "$">>)
             => Contains(out, <<"$", "$">>)

---------------------------------------------------------------------------
(* Properties of sanitize_for_mathtext (checked under SpecMath)            *)

math_returned == returned = "sanitize_for_mathtext"

\* C2: in the output of sanitize_for_mathtext every "%", "&" and "#" is
\* preceded by a backslash, and the two tests of the sanitizer pass.
C2_SpecialsEscaped ==
    math_returned =>
        /\ \A i \in 1..Len(out) :
             out[i] \in {"%", "&", "#"} => i > 1 /\ out[i - 1] = BS
        /\ \A t \in MathTests : src = t.input => out = t.expected

\* C3: the output of sanitize_for_mathtext is wrapped in a pair of "$": it
\* is at least two characters long, begins with "$" and ends with "$".
C3_WrappedInDollars ==
    math_returned => Len(out) >= 2 /\ out[1] = "$" /\ out[Len(out)] = "$"

---------------------------------------------------------------------------
(* Properties of App (checked under Spec)                                  *)

\* an on_copy_image step that put an image on the clipboard, or saved it to
\* the fallback file
image_copied == on_copy_image /\ status' \in {StatusImageCopied, StatusImageSaved}

\* the image that step put there
copied_image == IF HAVE_PYWIN32 THEN clipboard' ELSE saved_file'

\* img is a render of the text latex, at some font size with some engine
RenderOf(img, latex) ==
    \E f \in FontSizes, u \in BOOLEAN : img = render_latex_to_png_bytes(latex, f, u)

C10_CopiedImageHasCurrentOptions ==
    [][on_copy_image /\ status' = StatusImageCopied =>
         /\ clipboard'.fontsize = fontsize_var
         /\ clipboard'.usetex = usetex_var]_vars

=============================================================================
